---- MODULE Spec2Model ----
(***************************************************************************)
(* Model of recoder's command-line layer: the argument catalog             *)
(* SUPPORTED_ARGS, the scanner get_app_arguments (src/app_arguments.rs)    *)
(* and the host main (src/main.rs).                                        *)
(*                                                                         *)
(* Indices are 0-based as in the Rust source: Arg(k) is args[k].           *)
(* Option<T> is a sequence of length at most one: None is <<>>, Some(x) is *)
(* <<x>>.  Strings are TLA+ strings, so starts_with, format! and join are  *)
(* computed on the actual characters.                                      *)
(***************************************************************************)
EXTENDS Integers, Sequences, FiniteSets, TLC

VARIABLES
    args,               \* std::env::args().collect(), the whole vector
    pc,                 \* "scan" | "main" | "exited" | "panicked"
    i,                  \* the scan cursor (0-based index into args)
    templates_path,     \* the three locals of get_app_arguments
    definitions_path,
    results_root_path,
    result,             \* None until get_app_arguments returns, then Some(r)
    stdout,             \* the lines main has printed
    exit_code,          \* None while running, Some(code) once the process ended
    lookups,            \* history: the cursor indices looked up in the catalog
    value_reads         \* history: the indices read as a flag's value

vars == <<args, pc, i, templates_path, definitions_path, results_root_path,
          result, stdout, exit_code, lookups, value_reads>>

----------------------------------------------------------------------------
(* Bounds of the model. *)

\* The largest number of tokens after the program name.
MaxArgs == 4

\* The tokens an argument vector is drawn from: names and shorthands of the
\* catalog, a plain value, a shorthand written with two dashes (which is also
\* a proper prefix of a long name) and a --flag=value form.
Tokens ==
    { "--help", "-h", "--version", "-v", "--templates-path", "-t", "-d", "-r",
      "T", "--t", "--help=T" }

\* The zeroth token: an ordinary program name, or one that happens to equal a
\* required flag's shorthand.
ProgNames == { "prog", "-t" }

----------------------------------------------------------------------------
(* Option<T> *)

None == <<>>

Some(x) == <<x>>

\* Option::unwrap_or
unwrap_or(opt, default) == IF opt = None THEN default ELSE opt[1]

\* str::starts_with
starts_with(s, prefix) ==
    Len(s) >= Len(prefix) /\ SubSeq(s, 1, Len(prefix)) = prefix

----------------------------------------------------------------------------
(* The catalog *)

SUPPORTED_ARGS ==
    << [ name |-> "--help", syntax |-> "--help", shorthand |-> Some("-h"),
         description |-> "Show this help",
         number_of_args |-> 0, is_required |-> FALSE ],
       [ name |-> "--version", syntax |-> "--version", shorthand |-> Some("-v"),
         description |-> "Show the application version",
         number_of_args |-> 0, is_required |-> FALSE ],
       [ name |-> "--templates-path", syntax |-> "--templates-path <path>",
         shorthand |-> Some("-t"),
         description |-> "Set path to the templates directory",
         number_of_args |-> 1, is_required |-> TRUE ],
       [ name |-> "--definitions-path", syntax |-> "--definitions-path <path>",
         shorthand |-> Some("-d"),
         description |-> "Set path to the directory with definitions",
         number_of_args |-> 1, is_required |-> TRUE ],
       [ name |-> "--results-root-path", syntax |-> "--results-root-path <path>",
         shorthand |-> Some("-r"),
         description |-> "Set root directory for results, default is the current directory",
         number_of_args |-> 1, is_required |-> FALSE ] >>

\* The package version the build substitutes for env!("CARGO_PKG_VERSION").
CARGO_PKG_VERSION == "CARGO_PKG_VERSION"

----------------------------------------------------------------------------
(* The result type and its three constructors *)

AppArgumentsDefault ==
    [ templates_path |-> None, definitions_path |-> None,
      results_root_path |-> None ]

\* The AppArguments built from the scanner's locals (lines 171-175).
AppArgumentsFromLocals ==
    [ templates_path |-> templates_path, definitions_path |-> definitions_path,
      results_root_path |-> results_root_path ]

parsed(app_arguments) ==
    [ app_arguments |-> app_arguments, message |-> None, is_error |-> FALSE ]

errorKeepsLocals(text) ==
    [ app_arguments |-> AppArgumentsFromLocals, message |-> Some(text),
      is_error |-> TRUE ]

error(text) ==
    [ app_arguments |-> AppArgumentsDefault, message |-> Some(text),
      is_error |-> TRUE ]

message(text) ==
    [ app_arguments |-> AppArgumentsDefault, message |-> Some(text),
      is_error |-> FALSE ]

----------------------------------------------------------------------------
(* get_help_text *)

Max(a, b) == IF a >= b THEN a ELSE b

RECURSIVE MaxSyntaxLenFrom(_)
MaxSyntaxLenFrom(k) ==
    IF k > Len(SUPPORTED_ARGS) THEN 0
    ELSE Max(Len(SUPPORTED_ARGS[k].syntax), MaxSyntaxLenFrom(k + 1))

max_syntax_len == MaxSyntaxLenFrom(1)

RECURSIVE Spaces(_)
Spaces(n) == IF n <= 0 THEN "" ELSE " " \o Spaces(n - 1)

HelpLine(arg) ==
    arg.syntax \o Spaces(max_syntax_len - Len(arg.syntax) + 1)
        \o arg.description \o "\n"

RECURSIVE HelpLinesFrom(_)
HelpLinesFrom(k) ==
    IF k > Len(SUPPORTED_ARGS) THEN ""
    ELSE HelpLine(SUPPORTED_ARGS[k]) \o HelpLinesFrom(k + 1)

get_help_text ==
    "Supported arguments:\n" \o HelpLinesFrom(1) \o "\n"
        \o "Example: recoder --config-path C:\\config.json --logs-path C:\\logs --work-path C:\\work --env VAR1 value1 --env VAR2 value2"

----------------------------------------------------------------------------
(* The scanner's helpers *)

ArgsLen == Len(args)

\* args[k], 0-based
Arg(k) == args[k + 1]

UseHelp == "\nUse --help to see the list of supported arguments"

UnsupportedText(arg) == "Unsupported argument: " \o arg \o UseHelp

NotEnoughText(arg) == "Not enough arguments for " \o arg \o UseHelp

\* [&str]::join
RECURSIVE join(_, _)
join(names, sep) ==
    IF names = <<>> THEN ""
    ELSE IF Len(names) = 1 THEN names[1]
    ELSE names[1] \o sep \o join(Tail(names), sep)

MissingText(missing_args) ==
    "Missing required arguments: " \o join(missing_args, ", ") \o UseHelp

\* the positions of the catalog, in order
Catalog == 1..Len(SUPPORTED_ARGS)

\* SUPPORTED_ARGS.iter().find(..): the first of the definitions at the
\* positions `hits` (those the closure accepts), None when there is none
find(hits) ==
    IF hits = {} THEN None
    ELSE Some(SUPPORTED_ARGS[CHOOSE k \in hits : \A m \in hits : k <= m])

FindArgByPrefix(arg) ==
    IF starts_with(arg, "--")
    THEN find({ k \in Catalog : starts_with(SUPPORTED_ARGS[k].name, arg) })
    ELSE IF starts_with(arg, "-")
    THEN find({ k \in Catalog : SUPPORTED_ARGS[k].shorthand = Some(arg) })
    ELSE None

\* found_arg (lines 106-116)
FindArg(arg) ==
    IF starts_with(arg, "--")
    THEN find({ k \in Catalog : SUPPORTED_ARGS[k].name = arg })
    ELSE IF starts_with(arg, "-")
    THEN find({ k \in Catalog : SUPPORTED_ARGS[k].shorthand = Some(arg) })
    ELSE None

NotEnoughArgsOffByOne(found_arg, cursor) ==
    found_arg.number_of_args > 0 /\ cursor + found_arg.number_of_args > ArgsLen

\* the arity check (line 125)
NotEnoughArgs(found_arg, cursor) ==
    found_arg.number_of_args > 0 /\ cursor + found_arg.number_of_args >= ArgsLen

IsHelpLongOnly(arg) == arg = "--help"

IsHelp(arg) == arg = "--help" \/ arg = "-h"

IsVersion(arg) == arg = "--version" \/ arg = "-v"

IsTemplates(arg) == arg = "--templates-path" \/ arg = "-t"

IsDefinitions(arg) == arg = "--definitions-path" \/ arg = "-d"

IsResults(arg) == arg = "--results-root-path" \/ arg = "-r"

ValueIndexAtCursor(cursor) == cursor

\* the index of the value token of the flag at the cursor (args[i + 1])
ValueIndex(cursor) == cursor + 1

AdvanceByOne(cursor, found_arg) == cursor + 1

\* i += 1 + found_arg.number_of_args (line 145)
Advance(cursor, found_arg) == cursor + 1 + found_arg.number_of_args

\* the inner loop of lines 152-157: does any token of args, the zeroth and
\* the value tokens included, equal the definition's name or shorthand
FoundInArgs(supported_arg) ==
    \E k \in 0..(ArgsLen - 1) :
        \/ Arg(k) = supported_arg.name
        \/ Arg(k) = unwrap_or(supported_arg.shorthand, "")

RECURSIVE MissingArgsFrom(_)
MissingArgsFrom(k) ==
    IF k > Len(SUPPORTED_ARGS) THEN <<>>
    ELSE LET supported_arg == SUPPORTED_ARGS[k]
         IN  IF supported_arg.is_required /\ ~FoundInArgs(supported_arg)
             THEN <<supported_arg.name>> \o MissingArgsFrom(k + 1)
             ELSE MissingArgsFrom(k + 1)

MissingArgsFirstOnly ==
    IF MissingArgsFrom(1) = <<>> THEN <<>> ELSE <<Head(MissingArgsFrom(1))>>

\* missing_args (lines 148-162)
MissingArgs == MissingArgsFrom(1)

ExitCodeAlwaysZero(is_error) == 0

\* the exit code of line 10 of main.rs
ExitCode(is_error) == IF is_error THEN 1 ELSE 0

----------------------------------------------------------------------------
(* Initial states: every argument vector within the bounds *)

Init ==
    /\ \E n \in 0..MaxArgs, prog \in ProgNames :
           \E rest \in [1..n -> Tokens] : args = <<prog>> \o rest
    /\ pc = "scan"
    /\ i = 1
    /\ templates_path = None
    /\ definitions_path = None
    /\ results_root_path = None
    /\ result = None
    /\ stdout = <<>>
    /\ exit_code = None
    /\ lookups = <<>>
    /\ value_reads = {}

----------------------------------------------------------------------------
(* get_app_arguments: one action per way through the loop body, and one    *)
(* per way out of the function after the loop.                             *)

InLoop == pc = "scan" /\ i < ArgsLen

Return(r) ==
    /\ result' = Some(r)
    /\ pc' = "main"

\* lines 118-123
ScanUnsupported ==
    /\ InLoop
    /\ FindArg(Arg(i)) = None
    /\ Return(error(UnsupportedText(Arg(i))))
    /\ lookups' = Append(lookups, i)
    /\ UNCHANGED <<args, i, templates_path, definitions_path,
                   results_root_path, stdout, exit_code, value_reads>>

\* lines 125-130
ScanNotEnough ==
    /\ InLoop
    /\ FindArg(Arg(i)) # None
    /\ NotEnoughArgs(FindArg(Arg(i))[1], i)
    /\ Return(error(NotEnoughText(Arg(i))))
    /\ lookups' = Append(lookups, i)
    /\ UNCHANGED <<args, i, templates_path, definitions_path,
                   results_root_path, stdout, exit_code, value_reads>>

\* the token at the cursor passed the lookup and the arity check
Accepted ==
    /\ InLoop
    /\ FindArg(Arg(i)) # None
    /\ ~NotEnoughArgs(FindArg(Arg(i))[1], i)

\* lines 132-134
ScanHelp ==
    /\ Accepted
    /\ IsHelp(Arg(i))
    /\ Return(message(get_help_text))
    /\ lookups' = Append(lookups, i)
    /\ UNCHANGED <<args, i, templates_path, definitions_path,
                   results_root_path, stdout, exit_code, value_reads>>

\* lines 135-136
ScanVersion ==
    /\ Accepted
    /\ ~IsHelp(Arg(i))
    /\ IsVersion(Arg(i))
    /\ Return(message(CARGO_PKG_VERSION))
    /\ lookups' = Append(lookups, i)
    /\ UNCHANGED <<args, i, templates_path, definitions_path,
                   results_root_path, stdout, exit_code, value_reads>>

\* args[i + 1].clone() stored in one of the three locals, then line 145.
\* An index past the end of args panics (Rust's bounds check).
StoreValue(which) ==
    LET k == ValueIndex(i)
    IN  /\ lookups' = Append(lookups, i)
        /\ value_reads' = value_reads \cup {k}
        /\ IF k < ArgsLen
           THEN /\ templates_path' =
                      IF which = "templates" THEN Some(Arg(k)) ELSE templates_path
                /\ definitions_path' =
                      IF which = "definitions" THEN Some(Arg(k)) ELSE definitions_path
                /\ results_root_path' =
                      IF which = "results" THEN Some(Arg(k)) ELSE results_root_path
                /\ i' = Advance(i, FindArg(Arg(i))[1])
                /\ pc' = "scan"
           ELSE /\ pc' = "panicked"
                /\ UNCHANGED <<i, templates_path, definitions_path,
                               results_root_path>>
        /\ UNCHANGED <<args, result, stdout, exit_code>>

\* lines 137-138
ScanTemplates ==
    /\ Accepted
    /\ ~IsHelp(Arg(i)) /\ ~IsVersion(Arg(i))
    /\ IsTemplates(Arg(i))
    /\ StoreValue("templates")

\* lines 139-140
ScanDefinitions ==
    /\ Accepted
    /\ ~IsHelp(Arg(i)) /\ ~IsVersion(Arg(i)) /\ ~IsTemplates(Arg(i))
    /\ IsDefinitions(Arg(i))
    /\ StoreValue("definitions")

\* lines 141-143: the last else-if, and its empty else (only line 145 runs)
ScanResults ==
    /\ Accepted
    /\ ~IsHelp(Arg(i)) /\ ~IsVersion(Arg(i)) /\ ~IsTemplates(Arg(i))
    /\ ~IsDefinitions(Arg(i))
    /\ IF IsResults(Arg(i))
       THEN StoreValue("results")
       ELSE /\ lookups' = Append(lookups, i)
            /\ i' = Advance(i, FindArg(Arg(i))[1])
            /\ UNCHANGED <<args, pc, templates_path, definitions_path,
                           results_root_path, result, stdout, exit_code,
                           value_reads>>

\* the loop is over and lines 148-169 find a required definition missing
ReturnMissing ==
    /\ pc = "scan" /\ ~(i < ArgsLen)
    /\ Len(MissingArgs) > 0
    /\ Return(error(MissingText(MissingArgs)))
    /\ UNCHANGED <<args, i, templates_path, definitions_path,
                   results_root_path, stdout, exit_code, lookups, value_reads>>

\* the loop is over and lines 171-175 build the configuration
ReturnParsed ==
    /\ pc = "scan" /\ ~(i < ArgsLen)
    /\ Len(MissingArgs) = 0
    /\ Return(parsed(AppArgumentsFromLocals))
    /\ UNCHANGED <<args, i, templates_path, definitions_path,
                   results_root_path, stdout, exit_code, lookups, value_reads>>

----------------------------------------------------------------------------
(* main *)

\* lines 8-11 of main.rs with a message: print it and exit
MainPrintAndExit ==
    /\ pc = "main"
    /\ result[1].message # None
    /\ stdout' = Append(stdout, result[1].message[1])
    /\ exit_code' = Some(ExitCode(result[1].is_error))
    /\ pc' = "exited"
    /\ UNCHANGED <<args, i, templates_path, definitions_path,
                   results_root_path, result, lookups, value_reads>>

\* main falls off its end: the process ends with code 0
MainReturn ==
    /\ pc = "main"
    /\ result[1].message = None
    /\ exit_code' = Some(0)
    /\ pc' = "exited"
    /\ UNCHANGED <<args, i, templates_path, definitions_path,
                   results_root_path, result, stdout, lookups, value_reads>>

Next ==
    \/ ScanUnsupported
    \/ ScanNotEnough
    \/ ScanHelp
    \/ ScanVersion
    \/ ScanTemplates
    \/ ScanDefinitions
    \/ ScanResults
    \/ ReturnMissing
    \/ ReturnParsed
    \/ MainPrintAndExit
    \/ MainReturn

Spec == Init /\ [][Next]_vars

----------------------------------------------------------------------------
(* Vocabulary of the properties *)

Returned == pc \in {"main", "exited"}

\* the outcome, once get_app_arguments has returned
Res == result[1]

IsParsed(r) == ~r.is_error /\ r.message = None

IsMessage(r) == ~r.is_error /\ r.message # None

IsError(r) == r.is_error /\ r.message # None

\* the cursor positions the scan has looked up so far
Looked == { lookups[n] : n \in 1..Len(lookups) }

\* the loop ran to its end: the outcome comes from the code after the loop
ScanFinished == Returned /\ i >= ArgsLen

LongNames ==
    { "--help", "--version", "--templates-path", "--definitions-path",
      "--results-root-path" }

Shorthands == { "-h", "-v", "-t", "-d", "-r" }

TemplatesFlags == { "--templates-path", "-t" }

DefinitionsFlags == { "--definitions-path", "-d" }

ResultsFlags == { "--results-root-path", "-r" }

ValueFlags == TemplatesFlags \cup DefinitionsFlags \cup ResultsFlags

\* the token has the shape and the exact spelling of a catalog entry
Recognised(tok) ==
    \/ starts_with(tok, "--") /\ tok \in LongNames
    \/ starts_with(tok, "-") /\ ~starts_with(tok, "--") /\ tok \in Shorthands

\* the flag was never at a cursor position
Omitted(flags) == \A k \in Looked : Arg(k) \notin flags

OmittedRequired ==
    (IF Omitted(TemplatesFlags) THEN <<"--templates-path">> ELSE <<>>)
        \o (IF Omitted(DefinitionsFlags) THEN <<"--definitions-path">> ELSE <<>>)

\* the token after the last cursor position holding one of the flags
LastValue(flags) ==
    LET at == { k \in Looked : Arg(k) \in flags }
    IN  IF at = {} THEN None
        ELSE Some(Arg((CHOOSE k \in at : \A m \in at : m <= k) + 1))

----------------------------------------------------------------------------
(* C1 *)

\* C1: in every Parsed outcome both required fields, templates_path and
\* definitions_path, hold a value.
C1_RequiredFieldsPresent ==
    (Returned /\ IsParsed(Res)) =>
        /\ Res.app_arguments.templates_path # None
        /\ Res.app_arguments.definitions_path # None

----------------------------------------------------------------------------
(* C2 *)

\* C2 as stated: with no token beyond the program name the outcome is the
\* "no arguments provided" error, not a missing-required error.
C2_NoArgumentsError ==
    (Returned /\ ArgsLen = 1) =>
        /\ IsError(Res)
        /\ starts_with(Res.message[1], "No arguments provided")
        /\ ~starts_with(Res.message[1], "Missing required arguments")

\* C2 amended: with no token beyond the program name nothing is looked up and
\* the outcome is the missing-required error of the check after the loop,
\* naming every required definition that the zeroth token does not spell.
C2_EmptyInvocationIsMissingRequired ==
    (Returned /\ ArgsLen = 1) =>
        /\ lookups = <<>>
        /\ Res = [ app_arguments |-> AppArgumentsDefault,
                   is_error |-> TRUE,
                   message |-> Some(
                       "Missing required arguments: "
                       \o (IF Arg(0) \in TemplatesFlags
                             THEN "--definitions-path"
                           ELSE IF Arg(0) \in DefinitionsFlags
                             THEN "--templates-path"
                           ELSE "--templates-path, --definitions-path")
                       \o "\nUse --help to see the list of supported arguments") ]

C2_Witness == Returned /\ ArgsLen = 1 /\ Arg(0) = "prog" /\ IsError(Res)

----------------------------------------------------------------------------
(* C3 *)

\* C3: when the scan runs to its end and a required flag was never given as
\* a flag, the outcome is the missing-required error naming all such flags,
\* in catalog order.
C3_AllOmittedRequiredListed ==
    (ScanFinished /\ OmittedRequired # <<>>) =>
        Res = error(MissingText(OmittedRequired))

----------------------------------------------------------------------------
(* C4 *)

\* C4: as soon as the cursor is on --help or -h the outcome is the Message
\* carrying the help text, and on --version or -v the Message carrying the
\* version, whatever follows.
C4_HelpVersionShortCircuit ==
    \A k \in Looked :
        /\ Arg(k) \in {"--help", "-h"} =>
              /\ Returned
              /\ i = k
              /\ Res = [ app_arguments |-> AppArgumentsDefault,
                         message |-> Some(get_help_text), is_error |-> FALSE ]
        /\ Arg(k) \in {"--version", "-v"} =>
              /\ Returned
              /\ i = k
              /\ Res = [ app_arguments |-> AppArgumentsDefault,
                         message |-> Some(CARGO_PKG_VERSION), is_error |-> FALSE ]

\* -h after a flag with its value and before a malformed token
C4_Witness ==
    /\ Returned /\ IsMessage(Res)
    /\ Len(lookups) = 2
    /\ Arg(i) = "-h"
    /\ i + 1 < ArgsLen /\ ~Recognised(Arg(i + 1))

----------------------------------------------------------------------------
(* C5 *)

\* C5: a token at the cursor that is not the exact spelling of a catalog name
\* (two dashes) or shorthand (one dash) ends the scan there with the
\* unsupported-argument error naming that token.
C5_UnsupportedToken ==
    \A k \in Looked :
        ~Recognised(Arg(k)) =>
            /\ Returned
            /\ i = k
            /\ Res = [ app_arguments |-> AppArgumentsDefault,
                       is_error |-> TRUE,
                       message |-> Some(
                           "Unsupported argument: " \o Arg(k)
                           \o "\nUse --help to see the list of supported arguments") ]

\* a --flag=value token met after a flag with its value
C5_Witness ==
    /\ Returned /\ IsError(Res)
    /\ Len(lookups) = 2
    /\ Arg(i) = "--help=T"

----------------------------------------------------------------------------
(* C6 *)

\* C6: a flag that takes a value, met with no token after it, ends the scan
\* with the not-enough-arguments error naming the token as typed; no value is
\* read at an index outside the argument vector.
C6_InsufficientValues ==
    /\ pc # "panicked"
    /\ \A k \in value_reads : k < ArgsLen
    /\ \A k \in Looked :
          (Arg(k) \in ValueFlags /\ (ArgsLen - 1) - k < 1) =>
              /\ Returned
              /\ i = k
              /\ Res = [ app_arguments |-> AppArgumentsDefault,
                         is_error |-> TRUE,
                         message |-> Some(
                             "Not enough arguments for " \o Arg(k)
                             \o "\nUse --help to see the list of supported arguments") ]

\* a value flag as the last token, after a flag with its value
C6_Witness ==
    /\ Returned /\ IsError(Res)
    /\ Len(lookups) = 2
    /\ Arg(i) = "-d" /\ i = ArgsLen - 1

----------------------------------------------------------------------------
(* C7 *)

\* C7: an outcome has exactly one of the three shapes, and an Error or a
\* Message carries no configuration: its three fields are None.
C7_NoPartialConfiguration ==
    Returned =>
        /\ (Res.is_error => Res.message # None)
        /\ (Res.message # None =>
               /\ Res.app_arguments.templates_path = None
               /\ Res.app_arguments.definitions_path = None
               /\ Res.app_arguments.results_root_path = None)
        /\ Cardinality({ shape \in {"parsed", "message", "error"} :
               \/ shape = "parsed" /\ IsParsed(Res)
               \/ shape = "message" /\ IsMessage(Res)
               \/ shape = "error" /\ IsError(Res) }) = 1

\* an error met after a value had been stored
C7_Witness ==
    /\ Returned /\ IsError(Res)
    /\ templates_path # None

----------------------------------------------------------------------------
(* C8 *)

\* C8: an Error is printed and the process exits with 1; a Message is printed
\* and the process exits with 0; a Parsed outcome prints nothing and the
\* process ends with 0.
C8_ExitCodes ==
    /\ (pc # "exited" => exit_code = None /\ stdout = <<>>)
    /\ (pc = "exited" =>
           /\ IsError(Res) => (stdout = <<Res.message[1]>> /\ exit_code = Some(1))
           /\ IsMessage(Res) => (stdout = <<Res.message[1]>> /\ exit_code = Some(0))
           /\ IsParsed(Res) => (stdout = <<>> /\ exit_code = Some(0)))

C8_Witness == pc = "exited" /\ IsError(Res) /\ exit_code = Some(1)

----------------------------------------------------------------------------
(* C9 *)

\* C9: in a Parsed outcome each field is the token after the last cursor
\* position holding its flag, long name or shorthand alike, and None when the
\* flag was never at a cursor position; an error raised inside the scan is
\* never about a recognised flag that has its value (so never a repetition).
C9_LastOccurrenceWins ==
    /\ (Returned /\ IsParsed(Res)) =>
           /\ Res.app_arguments.templates_path = LastValue(TemplatesFlags)
           /\ Res.app_arguments.definitions_path = LastValue(DefinitionsFlags)
           /\ Res.app_arguments.results_root_path = LastValue(ResultsFlags)
    /\ (Returned /\ IsError(Res) /\ i < ArgsLen) =>
           (~Recognised(Arg(i)) \/ i + 1 >= ArgsLen)

\* the templates flag given twice, by shorthand and by long name, with
\* different values
C9_Witness ==
    /\ Returned /\ IsParsed(Res)
    /\ \E k1 \in Looked, k2 \in Looked :
          /\ k1 < k2
          /\ Arg(k1) = "-t" /\ Arg(k2) = "--templates-path"
          /\ Arg(k1 + 1) # Arg(k2 + 1)
          /\ Res.app_arguments.templates_path = Some(Arg(k2 + 1))

----------------------------------------------------------------------------
(* C10 *)

\* how far the run has got: the cursor while scanning, then past every
\* cursor value once the scan has returned and once the process has ended
Progress ==
    CASE pc = "scan" -> i
      [] pc = "main" -> ArgsLen + 1
      [] pc = "exited" -> ArgsLen + 2
      [] OTHER -> -1

\* C10: the scan starts at index 1; every iteration either returns or moves
\* the cursor forward by 1 + the arity of the flag at the cursor; the cursor
\* never moves backwards and never passes the end; the zeroth token and the
\* tokens read as values are never looked up; the outcome once returned never
\* changes; and the run ends: every step makes progress towards a bounded
\* end and a step is possible in every state but the final one.
C10_ScanTerminates ==
    /\ (pc = "scan" /\ lookups = <<>>) => i = 1
    /\ [][ pc = "scan" =>
             \/ pc' # "scan"
             \/ /\ lookups' = Append(lookups, i)
                /\ i' = i + 1 + (IF Arg(i) \in ValueFlags THEN 1 ELSE 0) ]_vars
    /\ [][ i' >= i /\ Progress' > Progress ]_vars
    /\ [][ result # None => result' = result ]_vars
    /\ [](/\ 0 \notin Looked
          /\ Looked \cap value_reads = {}
          /\ i <= ArgsLen
          /\ Progress \in 1..(ArgsLen + 2)
          /\ (pc = "exited" \/ ENABLED Next))

\* a run that went twice through the loop, reading two values
C10_Witness ==
    /\ pc = "exited"
    /\ Len(lookups) = 2
    /\ Cardinality(value_reads) = 2

====
